---------------------------- MODULE Spec2Model ----------------------------
(***************************************************************************)
(* A model of pyreto's colour matcher (src/src/color_utils.py), palette     *)
(* generator (src/palette_generator.py), colour store (src/color_store.py) *)
(* and main list (src/main.py, PaletteVault).                              *)
(*                                                                         *)
(* Python strings are sequences of one-character strings.  A call that can *)
(* raise returns a record [exc, val]: exc is "None" when the call returns  *)
(* val, otherwise the name of the exception that leaves the call.          *)
(***************************************************************************)
EXTENDS Integers, Sequences, FiniteSets, Bags, TLC

VARIABLES
    op,            \* the operation that was applied, "none" before the call
    query,         \* search_colors: query / find_similar_colors: target_color
    colors,        \* the candidate list
    max_distance,  \* find_similar_colors: the threshold, a rational <<n, d>>
    hex_color,     \* the colour string handed to a parser or scheme generator
    num_colors,    \* generate_analogous_colors: num_colors
    ret,           \* what the operation returned or raised: [exc, val]
    hue,           \* hsv_to_hex: h before the whole turns are added
    saturation,    \* hsv_to_hex: s
    value,         \* hsv_to_hex: v
    turns,         \* the whole turns added to hue
    stored,        \* STORAGE_FILE: the list of [hex, timestamp] entries
    now,           \* int(datetime.now().timestamp())
    favorites,     \* FAV_FILE: the set of favourite hex strings
    show_only_favs,  \* PaletteVault.show_only_favs
    search_query,    \* PaletteVault.search_query
    sort_reversed,   \* PaletteVault.sort_reversed
    list_view,     \* the ColorItems of the list: [color, timestamp, is_fav]
    selected,      \* on_key: selected = self.list_view.index (<<>> or <<i>>)
    notification,  \* the last self.notify of on_key
    palette_files  \* base colours of the palette files written

\* the arguments of the modelled calls of the matcher and the generator
callVars == <<query, colors, max_distance, hex_color, num_colors>>

hueVars == <<hue, saturation, value, turns>>

storeVars == <<stored, now>>

vaultVars == <<favorites, show_only_favs, search_query, sort_reversed, list_view,
               selected, notification, palette_files>>

vars == <<op, ret, callVars, hueVars, storeVars, vaultVars>>

----------------------------------------------------------------------------
(* Python's str and list primitives                                        *)

UpperLetters == <<"A","B","C","D","E","F","G","H","I","J","K","L","M",
                  "N","O","P","Q","R","S","T","U","V","W","X","Y","Z">>
LowerLetters == <<"a","b","c","d","e","f","g","h","i","j","k","l","m",
                  "n","o","p","q","r","s","t","u","v","w","x","y","z">>
Whitespace == {" "}

IndexIn(c, letters) == CHOOSE i \in 1..Len(letters) : letters[i] = c
IsIn(c, letters) == \E i \in 1..Len(letters) : letters[i] = c

\* str.lower() and str.upper(), one character at a time (ASCII)
UpperSet == {UpperLetters[i] : i \in 1..Len(UpperLetters)}
LowerSet == {LowerLetters[i] : i \in 1..Len(LowerLetters)}
LowerChar(c) == IF c \in UpperSet THEN LowerLetters[IndexIn(c, UpperLetters)] ELSE c
UpperChar(c) == IF c \in LowerSet THEN UpperLetters[IndexIn(c, LowerLetters)] ELSE c
Lower(s) == [i \in 1..Len(s) |-> LowerChar(s[i])]
Upper(s) == [i \in 1..Len(s) |-> UpperChar(s[i])]

\* s[a:b] with 0 <= a <= b: Python clips the slice to the string
Slice(s, a, b) ==
    LET hi == IF b < Len(s) THEN b ELSE Len(s)
    IN  IF a >= hi THEN <<>> ELSE SubSeq(s, a + 1, hi)

\* s.lstrip(chars): every leading character that is in chars goes
RECURSIVE LStrip(_, _)
LStrip(s, chars) ==
    IF s # <<>> /\ Head(s) \in chars THEN LStrip(Tail(s), chars) ELSE s

RECURSIVE RStrip(_, _)
RStrip(s, chars) ==
    IF s # <<>> /\ s[Len(s)] \in chars THEN RStrip(SubSeq(s, 1, Len(s) - 1), chars) ELSE s

\* s.strip()
Strip(s) == RStrip(LStrip(s, Whitespace), Whitespace)

\* needle in hay
Contains(hay, needle) ==
    \E i \in 0..(Len(hay) - Len(needle)) : SubSeq(hay, i + 1, i + Len(needle)) = needle

Range(s) == {s[i] : i \in 1..Len(s)}

RECURSIVE SeqToBag(_)
SeqToBag(s) == IF s = <<>> THEN EmptyBag ELSE SetToBag({Head(s)}) (+) SeqToBag(Tail(s))

----------------------------------------------------------------------------
(* int(text, 16)                                                           *)

HexDigits == <<"0","1","2","3","4","5","6","7","8","9","a","b","c","d","e","f">>
IsHexDigit(c) == IsIn(LowerChar(c), HexDigits)
HexVal(c) == IndexIn(LowerChar(c), HexDigits) - 1

RECURSIVE DigitsValue(_, _)
DigitsValue(s, acc) ==
    IF s = <<>> THEN acc
    ELSE IF Head(s) = "_" THEN DigitsValue(Tail(s), acc)
    ELSE DigitsValue(Tail(s), 16 * acc + HexVal(Head(s)))

\* the digit part of an integer literal: hex digits, single underscores
\* only between two digits
WellFormedDigits(s) ==
    /\ s # <<>>
    /\ \A i \in 1..Len(s) : IsHexDigit(s[i]) \/ s[i] = "_"
    /\ IsHexDigit(s[1]) /\ IsHexDigit(s[Len(s)])
    /\ \A i \in 1..(Len(s) - 1) : ~(s[i] = "_" /\ s[i + 1] = "_")

\* the digits of a literal, after sign and prefix
DigitLiteral(digits) ==
    IF WellFormedDigits(digits)
    THEN [exc |-> "None", val |-> DigitsValue(digits, 0)]
    ELSE [exc |-> "ValueError", val |-> 0]

\* a literal without its sign: a 0x prefix and one underscore after the
\* prefix are skipped
HasPrefix(u) == Len(u) >= 2 /\ u[1] = "0" /\ u[2] \in {"x", "X"}
SkipUnderscore(w) == IF w # <<>> /\ Head(w) = "_" THEN Tail(w) ELSE w
UnsignedLiteral(u) ==
    DigitLiteral(IF HasPrefix(u) THEN SkipUnderscore(Slice(u, 2, Len(u))) ELSE u)

IsSigned(t) == t # <<>> /\ Head(t) \in {"+", "-"}
WithSign(t, r) ==
    IF r.exc = "None" /\ t # <<>> /\ Head(t) = "-"
    THEN [exc |-> "None", val |-> 0 - r.val]
    ELSE r
SignedLiteral(t) == WithSign(t, UnsignedLiteral(IF IsSigned(t) THEN Tail(t) ELSE t))

\* int(text, 16): surrounding whitespace, one sign and a 0x prefix (with
\* one underscore after it) are accepted; anything else is a ValueError
PyIntBase16(text) == SignedLiteral(Strip(text))

----------------------------------------------------------------------------
(* src/src/color_utils.py                                                  *)

COLOR_NAMES ==
    { [hex |-> <<"F", "F", "0", "0", "0", "0">>, name |-> <<"r", "e", "d">>],
      [hex |-> <<"0", "0", "F", "F", "0", "0">>, name |-> <<"g", "r", "e", "e", "n">>],
      [hex |-> <<"0", "0", "0", "0", "F", "F">>, name |-> <<"b", "l", "u", "e">>],
      [hex |-> <<"F", "F", "F", "F", "0", "0">>, name |-> <<"y", "e", "l", "l", "o", "w">>],
      [hex |-> <<"F", "F", "0", "0", "F", "F">>, name |-> <<"m", "a", "g", "e", "n", "t", "a">>],
      [hex |-> <<"0", "0", "F", "F", "F", "F">>, name |-> <<"c", "y", "a", "n">>],
      [hex |-> <<"0", "0", "0", "0", "0", "0">>, name |-> <<"b", "l", "a", "c", "k">>],
      [hex |-> <<"F", "F", "F", "F", "F", "F">>, name |-> <<"w", "h", "i", "t", "e">>],
      [hex |-> <<"8", "0", "8", "0", "8", "0">>, name |-> <<"g", "r", "a", "y">>],
      [hex |-> <<"8", "0", "0", "0", "0", "0">>, name |-> <<"m", "a", "r", "o", "o", "n">>],
      [hex |-> <<"8", "0", "8", "0", "0", "0">>, name |-> <<"o", "l", "i", "v", "e">>],
      [hex |-> <<"0", "0", "8", "0", "0", "0">>, name |-> <<"d", "a", "r", "k", " ", "g", "r", "e", "e", "n">>],
      [hex |-> <<"8", "0", "0", "0", "8", "0">>, name |-> <<"p", "u", "r", "p", "l", "e">>],
      [hex |-> <<"0", "0", "8", "0", "8", "0">>, name |-> <<"t", "e", "a", "l">>],
      [hex |-> <<"0", "0", "0", "0", "8", "0">>, name |-> <<"n", "a", "v", "y">>],
      [hex |-> <<"F", "F", "A", "5", "0", "0">>, name |-> <<"o", "r", "a", "n", "g", "e">>],
      [hex |-> <<"A", "5", "2", "A", "2", "A">>, name |-> <<"b", "r", "o", "w", "n">>],
      [hex |-> <<"F", "F", "C", "0", "C", "B">>, name |-> <<"p", "i", "n", "k">>],
      [hex |-> <<"F", "F", "D", "7", "0", "0">>, name |-> <<"g", "o", "l", "d">>],
      [hex |-> <<"E", "6", "E", "6", "F", "A">>, name |-> <<"l", "a", "v", "e", "n", "d", "e", "r">>] }

\* int(hex_color[i:i+2], 16) for i in (0, 2, 4)
ChannelInts(h) == [k \in 1..3 |-> PyIntBase16(Slice(h, 2 * (k - 1), 2 * k))]

\* the exception of the first element of rs that raised, "None" if none did
FirstExc(rs) ==
    IF \A k \in 1..Len(rs) : rs[k].exc = "None" THEN "None"
    ELSE rs[CHOOSE k \in 1..Len(rs) :
                /\ rs[k].exc # "None"
                /\ \A j \in 1..(k - 1) : rs[j].exc = "None"].exc

RgbOf(ch) ==
    IF FirstExc(ch) # "None" THEN [exc |-> FirstExc(ch), val |-> <<>>]
    ELSE [exc |-> "None", val |-> <<ch[1].val, ch[2].val, ch[3].val>>]

\* hex_to_rgb: the three two-character slices of the string without its
\* leading markers, each through int(.., 16); the first failure is raised
hex_to_rgb(hex) == RgbOf(ChannelInts(LStrip(hex, {"#"})))

Sq(x) == x * x

\* the weighted sum of color_distance for two parsed colours
WeightedDistance(rgb1, rgb2) ==
    IF FirstExc(<<rgb1, rgb2>>) # "None" THEN [exc |-> FirstExc(<<rgb1, rgb2>>), val |-> 0]
    ELSE [exc |-> "None",
          val |-> 2 * Sq(rgb1.val[1] - rgb2.val[1]) + 4 * Sq(rgb1.val[2] - rgb2.val[2])
                  + 3 * Sq(rgb1.val[3] - rgb2.val[3])]

WeightedDistance_Swapped(rgb1, rgb2) ==
    IF FirstExc(<<rgb1, rgb2>>) # "None" THEN [exc |-> FirstExc(<<rgb1, rgb2>>), val |-> 0]
    ELSE [exc |-> "None",
          val |-> 4 * Sq(rgb1.val[1] - rgb2.val[1]) + 2 * Sq(rgb1.val[2] - rgb2.val[2])
                  + 3 * Sq(rgb1.val[3] - rgb2.val[3])]

color_distance_SwappedWeights(color1, color2) ==
    WeightedDistance_Swapped(hex_to_rgb(color1), hex_to_rgb(color2))

\* color_distance.  The code returns sqrt(2*dr^2 + 4*dg^2 + 3*db^2) with
\* every channel divided by 255.0; val is that distance squared and
\* multiplied by 255^2, an integer, which orders distances as the floats do.
color_distance(color1, color2) == WeightedDistance(hex_to_rgb(color1), hex_to_rgb(color2))

WithinDistance_Strict(d2, maxd) == d2 * maxd[2] * maxd[2] < maxd[1] * maxd[1] * 255 * 255

\* distance <= max_distance, for a distance d2 in color_distance's unit
\* and a threshold n/d with n >= 0 and d > 0
WithinDistance(d2, maxd) == d2 * maxd[2] * maxd[2] <= maxd[1] * maxd[1] * 255 * 255

\* list.sort(key = distance): a stable insertion of pair p into sorted s
RECURSIVE InsertByDistance(_, _)
InsertByDistance(p, s) ==
    IF s = <<>> THEN <<p>>
    ELSE IF s[Len(s)][2] <= p[2] THEN Append(s, p)
    ELSE Append(InsertByDistance(p, SubSeq(s, 1, Len(s) - 1)), s[Len(s)])

RECURSIVE SortByDistance(_)
SortByDistance(s) ==
    IF s = <<>> THEN <<>>
    ELSE InsertByDistance(s[Len(s)], SortByDistance(SubSeq(s, 1, Len(s) - 1)))

\* the loop of find_similar_colors over cs, with the pairs appended so far
\* in similar; the first color_distance that raises ends the call
RECURSIVE SimilarLoop(_, _, _, _)
RECURSIVE SimilarStep(_, _, _, _, _)
SimilarStep(target_color, cs, maxd, similar, distance) ==
    IF distance.exc # "None" THEN [exc |-> distance.exc, val |-> <<>>]
    ELSE SimilarLoop(target_color, Tail(cs), maxd,
                     IF WithinDistance(distance.val, maxd)
                     THEN Append(similar, <<Head(cs), distance.val>>)
                     ELSE similar)

SimilarLoop(target_color, cs, maxd, similar) ==
    IF cs = <<>> THEN [exc |-> "None", val |-> similar]
    ELSE SimilarStep(target_color, cs, maxd, similar, color_distance(target_color, Head(cs)))

\* the colours of the pairs, in order
ColorsOf(pairs) == [i \in 1..Len(pairs) |-> pairs[i][1]]

\* what find_similar_colors does after its loop: sort and return the colours
SortedSimilar(looped) ==
    IF looped.exc # "None" THEN [exc |-> looped.exc, val |-> <<>>]
    ELSE [exc |-> "None", val |-> ColorsOf(SortByDistance(looped.val))]

find_similar_colors(target_color, cs, maxd) ==
    SortedSimilar(SimilarLoop(target_color, cs, maxd, <<>>))

\* max_distance's default value, 0.5
DefaultMaxDistance == <<1, 2>>

DirectHexMatch_CaseSensitive(q, cs) == {c \in Range(cs) : Contains(c, q)}

\* strategy 1 of search_colors: the candidates whose lowercased text has q
DirectHexMatch(q, cs) == {c \in Range(cs) : Contains(Lower(c), q)}

ColorNameMatch_NoFilter(q, cs) == {e.hex : e \in COLOR_NAMES}

ColorNameMatch_AddsName(q, cs) ==
    {e.name : e \in {n \in COLOR_NAMES : Contains(Lower(n.name), q)}}

\* strategy 2: the keys of COLOR_NAMES whose name has q
ColorNameMatch(q, cs) == {e.hex : e \in {n \in COLOR_NAMES : Contains(Lower(n.name), q)}}

\* try: ... except ValueError: pass
ExceptValueError(similar) ==
    IF similar.exc = "ValueError" THEN [exc |-> "None", val |-> {}]
    ELSE [exc |-> similar.exc, val |-> Range(similar.val)]

NoExcept(similar) == [exc |-> similar.exc, val |-> Range(similar.val)]

SimilarMatch_NoExcept(q, cs) ==
    IF Len(q) >= 3
    THEN NoExcept(find_similar_colors(<<"#">> \o q, cs, DefaultMaxDistance))
    ELSE [exc |-> "None", val |-> {}]

\* strategy 3: find_similar_colors("#" + q, cs) inside try/except ValueError
\* for a q of 3 characters or more
SimilarMatch(q, cs) ==
    IF Len(q) >= 3
    THEN ExceptValueError(find_similar_colors(<<"#">> \o q, cs, DefaultMaxDistance))
    ELSE [exc |-> "None", val |-> {}]

\* the three strategies united, for a non-empty q
SearchResults(q, cs, similar) ==
    IF similar.exc # "None" THEN [exc |-> similar.exc, val |-> EmptyBag]
    ELSE [exc |-> "None",
          val |-> SetToBag(DirectHexMatch(q, cs) \cup ColorNameMatch(q, cs)
                           \cup similar.val)]

SearchStripped_NoEarlyReturn(q, cs) == SearchResults(q, cs, SimilarMatch(q, cs))

\* search_colors once the query is lowercased and trimmed
SearchStripped(q, cs) ==
    IF q = <<>> THEN [exc |-> "None", val |-> SeqToBag(cs)]
    ELSE SearchResults(q, cs, SimilarMatch(q, cs))

search_colors_NoEarlyReturn(qtext, cs) == SearchStripped_NoEarlyReturn(Strip(Lower(qtext)), cs)

\* search_colors.  val is the returned list as a bag: list(results) has the
\* elements of the set in an order the code does not fix.
search_colors(qtext, cs) == SearchStripped(Strip(Lower(qtext)), cs)

----------------------------------------------------------------------------
(* Python floats                                                           *)
(*                                                                         *)
(* A float is a record [n, d, exact]: the rational n/d in lowest terms     *)
(* with d > 0, and whether the float is that rational exactly.  A float    *)
(* that is not exact lies within rounding error of n/d, on either side.    *)
(* A result is exact when its operands are and its denominator is a power  *)
(* of two; the numbers here stay far below 2^53.                           *)

Abs(x) == IF x < 0 THEN 0 - x ELSE x

RECURSIVE GCD(_, _)
GCD(a, b) == IF b = 0 THEN a ELSE GCD(b, a % b)

RECURSIVE IsPowerOfTwo(_)
IsPowerOfTwo(d) == d = 1 \/ (d % 2 = 0 /\ IsPowerOfTwo(d \div 2))

Float(n, d, exact) ==
    LET g == GCD(Abs(n), d)
    IN  [n |-> n \div g, d |-> d \div g, exact |-> exact /\ IsPowerOfTwo(d \div g)]

\* a literal of the source, such as 0.083 or 6.0
Lit(n, d) == Float(n, d, TRUE)

FAdd(a, b) ==
    LET g == GCD(a.d, b.d)
    IN  Float(a.n * (b.d \div g) + b.n * (a.d \div g), (a.d \div g) * b.d,
              a.exact /\ b.exact)

FNeg(a) == [n |-> 0 - a.n, d |-> a.d, exact |-> a.exact]

FSub(a, b) == FAdd(a, FNeg(b))

FMul(a, b) ==
    LET g1 == GCD(Abs(a.n), b.d)
        g2 == GCD(Abs(b.n), a.d)
    IN  Float((a.n \div g1) * (b.n \div g2), (a.d \div g2) * (b.d \div g1),
              a.exact /\ b.exact)

\* a / b for b # 0
FDiv(a, b) ==
    FMul(a, [n |-> IF b.n < 0 THEN 0 - b.d ELSE b.d, d |-> Abs(b.n), exact |-> b.exact])

FLess(a, b) == a.n * b.d < b.n * a.d

\* int(x) of a rational: towards zero
Trunc(a) == IF a.n >= 0 THEN a.n \div a.d ELSE 0 - ((0 - a.n) \div a.d)

\* x % 1.0
FMod1(a) == [n |-> a.n % a.d, d |-> a.d, exact |-> a.exact]

\* int(x) of a float: a float that is not exact and within rounding error
\* of an integer k may lie on either side of it
IntOutcomes(a) ==
    IF a.exact \/ a.d # 1 THEN {Trunc(a)}
    ELSE IF a.n > 0 THEN {a.n - 1, a.n}
    ELSE IF a.n < 0 THEN {a.n, a.n + 1}
    ELSE {0}

RECURSIVE HexOf(_)
HexOf(n) == IF n < 16 THEN <<HexDigits[n + 1]>> ELSE Append(HexOf(n \div 16), HexDigits[(n % 16) + 1])

Format02x_UpperCase(n) ==
    LET sign   == IF n < 0 THEN <<"-">> ELSE <<>>
        digits == Upper(HexOf(Abs(n)))
    IN  IF Len(sign) + Len(digits) < 2 THEN sign \o <<"0">> \o digits ELSE sign \o digits

\* format(n, "02x"): lower-case hex, the sign first, zero-filled to two
\* characters
Format02x(n) ==
    LET sign   == IF n < 0 THEN <<"-">> ELSE <<>>
        digits == HexOf(Abs(n))
    IN  IF Len(sign) + Len(digits) < 2 THEN sign \o <<"0">> \o digits ELSE sign \o digits

----------------------------------------------------------------------------
(* src/palette_generator.py                                                *)

Max3(a, b, c) ==
    LET ab == IF FLess(a, b) THEN b ELSE a IN IF FLess(ab, c) THEN c ELSE ab
Min3(a, b, c) ==
    LET ab == IF FLess(b, a) THEN b ELSE a IN IF FLess(c, ab) THEN c ELSE ab

\* the hue of colorsys.rgb_to_hsv before it is divided by 6.0
HueOf(r, g, maxc, rc, gc, bc) ==
    IF ~FLess(r, maxc) THEN FSub(bc, gc)
    ELSE IF ~FLess(g, maxc) THEN FSub(FAdd(Lit(2, 1), rc), bc)
    ELSE FSub(FAdd(Lit(4, 1), gc), rc)

\* colorsys.rgb_to_hsv once maxc and rangec = maxc - minc are known
HsvOfRange(r, g, b, maxc, rangec) ==
    IF rangec.n = 0 THEN [exc |-> "None", val |-> <<Lit(0, 1), Lit(0, 1), maxc>>]
    ELSE IF maxc.n = 0 THEN [exc |-> "ZeroDivisionError", val |-> <<>>]
    ELSE [exc |-> "None",
          val |-> <<FMod1(FDiv(HueOf(r, g, maxc, FDiv(FSub(maxc, r), rangec),
                                     FDiv(FSub(maxc, g), rangec),
                                     FDiv(FSub(maxc, b), rangec)),
                               Lit(6, 1))),
                    FDiv(rangec, maxc), maxc>>]

\* colorsys.rgb_to_hsv
rgb_to_hsv(r, g, b) == HsvOfRange(r, g, b, Max3(r, g, b), FSub(Max3(r, g, b), Min3(r, g, b)))

\* a channel divided by 255.0
Unit(x) == FDiv(Lit(x, 1), Lit(255, 1))

HsvOfChannels(ch) ==
    IF FirstExc(ch) # "None" THEN [exc |-> FirstExc(ch), val |-> <<>>]
    ELSE rgb_to_hsv(Unit(ch[1].val), Unit(ch[2].val), Unit(ch[3].val))

\* hex_to_hsv: the three slices through int(.., 16) / 255.0, then
\* colorsys.rgb_to_hsv
hex_to_hsv(hex) == HsvOfChannels(ChannelInts(LStrip(hex, {"#"})))

SectorTriple(v, p, q, t, k) ==
    CASE k = 0 -> <<v, t, p>>
      [] k = 1 -> <<q, v, p>>
      [] k = 2 -> <<p, v, t>>
      [] k = 3 -> <<p, q, v>>
      [] k = 4 -> <<t, p, v>>
      [] k = 5 -> <<v, p, q>>

\* 1.0 - x
OneMinus(x) == FSub(Lit(1, 1), x)

\* the branch of colorsys.hsv_to_rgb for sector i and fraction f
HsvSector(s, v, i, f) ==
    SectorTriple(v, FMul(v, OneMinus(s)), FMul(v, OneMinus(FMul(s, f))),
                 FMul(v, OneMinus(FMul(s, OneMinus(f)))), i % 6)

\* colorsys.hsv_to_rgb for h6 = h*6.0: i = int(h6) and f = h6 - i; an h6
\* that is not exact and within rounding error of an integer i may also
\* fall on the side of i nearer to zero: for a positive h6 in sector i - 1
\* with f just below 1, for a negative h6 in sector i + 1 with f just
\* above -1.
SectorsOf(s, v, h6) ==
    IF s.n = 0 THEN {<<v, v, v>>}
    ELSE {HsvSector(s, v, Trunc(h6), FSub(h6, Lit(Trunc(h6), 1)))}
         \cup IF ~h6.exact /\ h6.d = 1 /\ h6.n >= 0
              THEN {HsvSector(s, v, Trunc(h6) - 1, Float(1, 1, FALSE))}
              ELSE {}
         \cup IF ~h6.exact /\ h6.d = 1 /\ h6.n < 0
              THEN {HsvSector(s, v, Trunc(h6) + 1, Float(0 - 1, 1, FALSE))}
              ELSE {}

\* colorsys.hsv_to_rgb: the triples the call can return
hsv_to_rgb(h, s, v) == SectorsOf(s, v, FMul(h, Lit(6, 1)))

\* "#" and the three channels int(c * 255) as two hex digits each, for one
\* triple; the channels of a grey (s = 0) are one float and convert alike
HexStrings(grey, R, G, B) ==
    IF grey
    THEN {<<"#">> \o Format02x(x) \o Format02x(x) \o Format02x(x) : x \in R}
    ELSE {<<"#">> \o Format02x(x) \o Format02x(y) \o Format02x(z) :
              x \in R, y \in G, z \in B}

HexOfRgb(rgb) ==
    HexStrings(rgb[1] = rgb[2] /\ rgb[2] = rgb[3],
               IntOutcomes(FMul(rgb[1], Lit(255, 1))),
               IntOutcomes(FMul(rgb[2], Lit(255, 1))),
               IntOutcomes(FMul(rgb[3], Lit(255, 1))))

\* hsv_to_hex: the strings the call can return
hsv_to_hex(h, s, v) == UNION {HexOfRgb(rgb) : rgb \in hsv_to_rgb(h, s, v)}

\* the hue h rotated by n/d of a turn: (h + n/d) % 1.0
Rotate(h, n, d) == FMod1(FAdd(h, Lit(n, d)))

\* the lists <<c1, .., ck>> with ci one of the strings hsv_to_hex can
\* return for the hue rotated by rotations[i]
RECURSIVE RotatedColors(_, _)
RotatedColors(hsv, rotations) ==
    IF rotations = <<>> THEN {<<>>}
    ELSE LET last == rotations[Len(rotations)]
         IN  {Append(cs, c) :
                 cs \in RotatedColors(hsv, SubSeq(rotations, 1, Len(rotations) - 1)),
                 c \in hsv_to_hex(Rotate(hsv[1], last[1], last[2]), hsv[2], hsv[3])}

\* the lists a generator can return: prefix, then the rotated colours, or
\* the exception of hex_to_hsv
SchemeOf(prefix, hsv, rotations) ==
    IF hsv.exc # "None" THEN {[exc |-> hsv.exc, val |-> <<>>]}
    ELSE {[exc |-> "None", val |-> prefix \o cs] : cs \in RotatedColors(hsv.val, rotations)}

\* a fixed-size scheme: hex_to_hsv, then the base as given followed by the
\* rotated colours
FixedScheme(base_color, rotations) ==
    SchemeOf(<<base_color>>, hex_to_hsv(base_color), rotations)

generate_complementary_colors(base_color) ==
    FixedScheme(base_color, << <<1, 2>> >>)

generate_triadic_colors_Rounded(base_color) ==
    FixedScheme(base_color, << <<333, 1000>>, <<667, 1000>> >>)

generate_triadic_colors(base_color) ==
    FixedScheme(base_color, << <<333, 1000>>, <<666, 1000>> >>)

generate_split_complementary_colors(base_color) ==
    FixedScheme(base_color, << <<417, 1000>>, <<583, 1000>> >>)

generate_tetradic_colors(base_color) ==
    FixedScheme(base_color, << <<1, 4>>, <<1, 2>>, <<3, 4>> >>)

generate_analogous_colors_Inclusive(base_color, n) ==
    SchemeOf(<<>>, hex_to_hsv(base_color),
             [i \in 1..(2 * (n \div 2) + 1) |-> <<((i - 1) - (n \div 2)) * 83, 1000>>])

generate_analogous_colors_FromBase(base_color, n) ==
    SchemeOf(<<>>, hex_to_hsv(base_color), [i \in 1..n |-> <<(i - 1) * 83, 1000>>])

\* generate_analogous_colors: for i in range(num_colors) the hue rotated
\* by (i - num_colors // 2) * 0.083
generate_analogous_colors(base_color, n) ==
    SchemeOf(<<>>, hex_to_hsv(base_color),
             [i \in 1..n |-> <<((i - 1) - (n \div 2)) * 83, 1000>>])

----------------------------------------------------------------------------
(* Inputs                                                                  *)

\* no call made, and the parts of the program a specification leaves alone
NoReturn == [exc |-> "None", val |-> <<>>]

IdleCall ==
    /\ query = <<>>
    /\ colors = <<>>
    /\ max_distance = DefaultMaxDistance
    /\ hex_color = <<>>
    /\ num_colors = 0

IdleHue ==
    /\ hue = Lit(0, 1)
    /\ saturation = Lit(0, 1)
    /\ value = Lit(0, 1)
    /\ turns = 0

IdleStore ==
    /\ stored = <<>>
    /\ now = 0

IdleVault ==
    /\ favorites = {}
    /\ show_only_favs = FALSE
    /\ search_query = <<>>
    /\ sort_reversed = FALSE
    /\ list_view = <<>>
    /\ selected = <<>>
    /\ notification = "None"
    /\ palette_files = {}

\* the longest candidate list
MaxCands == 3

\* candidate strings: stored colours, one in lower case, one that is not hex
\* and one of five digits
CandidatePool ==
    { <<"F", "F", "0", "0", "0", "0">>,
      <<"0", "0", "F", "F", "0", "0">>,
      <<"B", "3", "0", "0", "0", "0">>,
      <<"f", "f", "0", "0", "0", "0">>,
      <<"z", "z", "0", "0", "0", "0">>,
      <<"F", "F", "0", "0", "0">> }

\* search texts: empty and blank, names, hex fragments, whole colours, and
\* texts that are no colour
QueryPool ==
    { <<>>,
      <<" ">>,
      <<"r", "e", "d">>,
      <<"R", "e", "d", " ">>,
      <<"g", "r">>,
      <<"e">>,
      <<"f", "f">>,
      <<"f", "f", "0", "0", "0", "0">>,
      <<"F", "F", "0", "0", "0", "0">>,
      <<"#", "f", "f", "0", "0", "0", "0">>,
      <<"f", "f", "0", "0">>,
      <<"f", "f", "0", "0", "0">>,
      <<"x", "y", "z">>,
      <<"z", "z", "0", "0", "0", "0">>,
      <<"0", "0", "f", "f", "0", "0">> }

\* target colours of find_similar_colors
TargetPool ==
    { <<"F", "F", "0", "0", "0", "0">>,
      <<"#", "f", "f", "0", "0", "0", "0">>,
      <<"0", "0", "0", "0", "0", "0">>,
      <<"B", "3", "F", "F", "0", "0">>,
      <<"z", "z", "0", "0", "0", "0">> }

\* thresholds of find_similar_colors: 0, the default 0.5, 2 and 3
MaxDistancePool == {<<0, 1>>, <<1, 2>>, <<2, 1>>, <<3, 1>>}

RECURSIVE ListsUpTo(_, _)
ListsUpTo(pool, n) ==
    IF n = 0 THEN {<<>>}
    ELSE LET shorter == ListsUpTo(pool, n - 1)
         IN  shorter \cup {Append(s, c) : s \in {x \in shorter : Len(x) = n - 1}, c \in pool}

CandidateLists == ListsUpTo(CandidatePool, MaxCands)

----------------------------------------------------------------------------
(* search_colors applied to one query and one candidate list               *)

InitSearch ==
    /\ op = "none"
    /\ query \in QueryPool
    /\ colors \in CandidateLists
    /\ max_distance = DefaultMaxDistance
    /\ hex_color = <<>>
    /\ num_colors = 0
    /\ ret = NoReturn
    /\ IdleHue
    /\ IdleStore
    /\ IdleVault

SearchColors ==
    /\ op = "none"
    /\ op' = "search_colors"
    /\ ret' = search_colors(query, colors)
    /\ UNCHANGED <<callVars, hueVars, storeVars, vaultVars>>

NextSearch == SearchColors

SpecSearch == InitSearch /\ [][NextSearch]_vars

----------------------------------------------------------------------------
(* find_similar_colors applied to one target, list and threshold           *)

InitSimilar ==
    /\ op = "none"
    /\ query \in TargetPool
    /\ colors \in CandidateLists
    /\ max_distance \in MaxDistancePool
    /\ hex_color = <<>>
    /\ num_colors = 0
    /\ ret = NoReturn
    /\ IdleHue
    /\ IdleStore
    /\ IdleVault

FindSimilarColors ==
    /\ op = "none"
    /\ op' = "find_similar_colors"
    /\ ret' = find_similar_colors(query, colors, max_distance)
    /\ UNCHANGED <<callVars, hueVars, storeVars, vaultVars>>

NextSimilar == FindSimilarColors

SpecSimilar == InitSimilar /\ [][NextSimilar]_vars

----------------------------------------------------------------------------
(* hex_to_rgb and hex_to_hsv applied to one string                         *)

\* the longest string handed to the parsers
MaxHexLen == 7

\* the characters of those strings: the marker, hex digits, a letter that
\* is no hex digit, and a sign
ParseAlphabet == {"#", "F", "0", "g", "-"}

ParseInputs(n) == ListsUpTo(ParseAlphabet, n)

InitParse ==
    /\ op = "none"
    /\ query = <<>>
    /\ colors = <<>>
    /\ max_distance = DefaultMaxDistance
    /\ hex_color \in ParseInputs(MaxHexLen)
    /\ num_colors = 0
    /\ ret = NoReturn
    /\ IdleHue
    /\ IdleStore
    /\ IdleVault

HexToRgb ==
    /\ op = "none"
    /\ op' = "hex_to_rgb"
    /\ ret' = hex_to_rgb(hex_color)
    /\ UNCHANGED <<callVars, hueVars, storeVars, vaultVars>>

HexToHsv ==
    /\ op = "none"
    /\ op' = "hex_to_hsv"
    /\ ret' = hex_to_hsv(hex_color)
    /\ UNCHANGED <<callVars, hueVars, storeVars, vaultVars>>

NextParse == HexToRgb \/ HexToHsv

SpecParse == InitParse /\ [][NextParse]_vars

----------------------------------------------------------------------------
(* A scheme generator applied to one base colour                           *)

\* the largest num_colors handed to generate_analogous_colors
MaxCount == 5

\* base colours: canonical, marked and lower-case, a grey, a five-digit
\* and a signed string that the parser accepts, and two it rejects
BasePool ==
    { <<"F", "F", "0", "0", "0", "0">>,
      <<"#", "f", "f", "0", "0", "0", "0">>,
      <<"B", "3", "0", "0", "0", "0">>,
      <<"F", "F", "A", "5", "0", "0">>,
      <<"8", "0", "8", "0", "8", "0">>,
      <<"F", "F", "0", "0", "0">>,
      <<"-", "F", "0", "0", "F", "F">>,
      <<"z", "z", "0", "0", "0", "0">>,
      <<>> }

InitScheme ==
    /\ op = "none"
    /\ query = <<>>
    /\ colors = <<>>
    /\ max_distance = DefaultMaxDistance
    /\ hex_color \in BasePool
    /\ num_colors \in 0..MaxCount
    /\ ret = NoReturn
    /\ IdleHue
    /\ IdleStore
    /\ IdleVault

GenerateAnalogous ==
    /\ op = "none"
    /\ op' = "generate_analogous_colors"
    /\ ret' \in generate_analogous_colors(hex_color, num_colors)
    /\ UNCHANGED <<callVars, hueVars, storeVars, vaultVars>>

GenerateComplementary ==
    /\ op = "none"
    /\ op' = "generate_complementary_colors"
    /\ ret' \in generate_complementary_colors(hex_color)
    /\ UNCHANGED <<callVars, hueVars, storeVars, vaultVars>>

GenerateTriadic ==
    /\ op = "none"
    /\ op' = "generate_triadic_colors"
    /\ ret' \in generate_triadic_colors(hex_color)
    /\ UNCHANGED <<callVars, hueVars, storeVars, vaultVars>>

GenerateSplitComplementary ==
    /\ op = "none"
    /\ op' = "generate_split_complementary_colors"
    /\ ret' \in generate_split_complementary_colors(hex_color)
    /\ UNCHANGED <<callVars, hueVars, storeVars, vaultVars>>

GenerateTetradic ==
    /\ op = "none"
    /\ op' = "generate_tetradic_colors"
    /\ ret' \in generate_tetradic_colors(hex_color)
    /\ UNCHANGED <<callVars, hueVars, storeVars, vaultVars>>

NextScheme ==
    \/ GenerateAnalogous
    \/ GenerateComplementary
    \/ GenerateTriadic
    \/ GenerateSplitComplementary
    \/ GenerateTetradic

SpecScheme == InitScheme /\ [][NextScheme]_vars

----------------------------------------------------------------------------
(* hsv_to_hex applied to one hue, moved by whole turns                     *)

\* the most whole turns added to or taken from a hue
MaxTurns == 2

\* hues in [0, 1): sector starts, hues inside a sector, and one that is no
\* binary fraction
HuePool == {Lit(0, 1), Lit(1, 8), Lit(1, 2), Lit(7, 8), Lit(1, 10)}

\* saturations and values in [0, 1]
UnitPool == {Lit(0, 1), Lit(1, 2), Lit(7, 10), Lit(1, 1)}

InitHue ==
    /\ op = "none"
    /\ ret = NoReturn
    /\ IdleCall
    /\ hue \in HuePool
    /\ saturation \in UnitPool
    /\ value \in UnitPool
    /\ turns \in (0 - MaxTurns)..MaxTurns
    /\ IdleStore
    /\ IdleVault

HsvToHex ==
    /\ op = "none"
    /\ op' = "hsv_to_hex"
    /\ ret' \in {[exc |-> "None", val |-> c] :
                    c \in hsv_to_hex(FAdd(hue, Lit(turns, 1)), saturation, value)}
    /\ UNCHANGED <<callVars, hueVars, storeVars, vaultVars>>

NextHue == HsvToHex

SpecHue == InitHue /\ [][NextHue]_vars

----------------------------------------------------------------------------
(* src/color_store.py: the history file under save_color and clear_colors  *)

\* the latest time on the clock
MaxClock == 2

\* save_color once its argument is normalised: nothing for an empty string
\* or one that an entry has already, else one entry appended
SaveNormalized(hex, entries, timestamp) ==
    IF hex = <<>> THEN entries
    ELSE IF \E i \in 1..Len(entries) : Upper(entries[i].hex) = hex THEN entries
    ELSE Append(entries, [hex |-> hex, timestamp |-> timestamp])

save_color_NoUpper(raw, entries, timestamp) ==
    SaveNormalized(LStrip(Strip(raw), {"#"}), entries, timestamp)

\* save_color: the entries of the file after the call, given those before
save_color(raw, entries, timestamp) ==
    SaveNormalized(Upper(LStrip(Strip(raw), {"#"})), entries, timestamp)

\* clear_colors: the entries of the file after the call
clear_colors == <<>>

\* strings handed to save_color: empty ones, one colour in several
\* spellings, another colour, and a string that is no colour
SaveInputs ==
    { <<>>,
      <<"#">>,
      <<" ">>,
      <<"F", "F", "0", "0", "0", "0">>,
      <<"f", "f", "0", "0", "0", "0">>,
      <<" ", "#", "f", "f", "0", "0", "0", "0", " ">>,
      <<"#", "0", "0", "F", "F", "0", "0">>,
      <<"#", "#", "0", "0", "f", "f", "0", "0">>,
      <<"z", "z">> }

InitStore ==
    /\ op = "none"
    /\ ret = NoReturn
    /\ IdleCall
    /\ IdleHue
    /\ IdleStore
    /\ IdleVault

\* save_color(raw) at some time not before the last call
SaveColor ==
    \E raw \in SaveInputs, t \in now..MaxClock :
        /\ op' = "save_color"
        /\ hex_color' = raw
        /\ now' = t
        /\ stored' = save_color(raw, stored, t)
        /\ UNCHANGED <<ret, query, colors, max_distance, num_colors, hueVars, vaultVars>>

ClearColors ==
    /\ op' = "clear_colors"
    /\ stored' = clear_colors
    /\ UNCHANGED <<ret, callVars, now, hueVars, vaultVars>>

NextStore == SaveColor \/ ClearColors

SpecStore == InitStore /\ [][NextStore]_vars

----------------------------------------------------------------------------

(* src/main.py: PaletteVault, its list and its keys                        *)

\* entry["hex"].lstrip("#").upper()
EntryHex(entry) == Upper(LStrip(entry.hex, {"#"}))

\* list.sort(key=..): the entries of s in the stable order of their keys
SortedByKey(s, keys) == ColorsOf(SortByDistance([i \in 1..Len(s) |-> <<s[i], keys[i]>>]))

\* colors.sort(key=lambda x: x["hex"].lstrip("#").upper() not in favs)
FavoritesFirst(cs, favs) ==
    SortedByKey(cs, [i \in 1..Len(cs) |-> IF EntryHex(cs[i]) \in favs THEN 0 ELSE 1])

\* colors.sort(key=lambda x: x["timestamp"], reverse=self.sort_reversed);
\* a reversed sort keeps equal keys in their order too
ByTimestamp(cs, reversed) ==
    SortedByKey(cs, [i \in 1..Len(cs) |->
                        IF reversed THEN 0 - cs[i].timestamp ELSE cs[i].timestamp])

\* [c for c in colors if c["hex"].lstrip("#").upper() in filtered_colors]
KeepFound(cs, found) ==
    LET IsFound(c) == EntryHex(c) \in BagToSet(found.val)
    IN  IF found.exc # "None" THEN <<>> ELSE SelectSeq(cs, IsFound)

\* the filter of rebuild_list by the search query, if there is one
Filtered(cs, q) ==
    IF q = <<>> THEN cs
    ELSE KeepFound(cs, search_colors(q, [i \in 1..Len(cs) |-> EntryHex(cs[i])]))

\* the loop of rebuild_list: one ColorItem per entry, none for an entry
\* that is no favourite when only favourites are shown
ColorItems_ShowAll(cs, favs, only_favs) ==
    [i \in 1..Len(cs) |-> [color |-> EntryHex(cs[i]), timestamp |-> cs[i].timestamp,
                           is_fav |-> EntryHex(cs[i]) \in favs]]

ColorItems(cs, favs, only_favs) ==
    LET Shown(c) == ~(only_favs /\ EntryHex(c) \notin favs)
        shown == SelectSeq(cs, Shown)
    IN  [i \in 1..Len(shown) |->
            [color |-> EntryHex(shown[i]), timestamp |-> shown[i].timestamp,
             is_fav |-> EntryHex(shown[i]) \in favs]]

\* rebuild_list: the items of the list view after the call
rebuild_list(entries, favs, only_favs, reversed, q) ==
    ColorItems(Filtered(ByTimestamp(FavoritesFirst(entries, favs), reversed), q),
               favs, only_favs)

\* is_valid_selection(index); the comparison of an index of None raises
is_valid_selection(index, children) ==
    IF index = <<>> THEN [exc |-> "TypeError", val |-> FALSE]
    ELSE [exc |-> "None", val |-> 0 <= index[1] /\ index[1] < Len(children)]

\* create_color_block: the name size is not defined anywhere
create_color_block(color) == [exc |-> "NameError", val |-> <<>>]

\* the exceptions a generator can leave with
Raised(outcomes) == {r.exc : r \in outcomes}

\* save_palette_to_markdown after its five generator calls, which raised
\* excs: the first of these leaves the call, else md_content is built,
\* which begins with create_color_block(base_color), and the file written
PaletteWritten(base_color, excs, block) ==
    IF FirstExc(excs) # "None" THEN [exc |-> FirstExc(excs), val |-> <<>>]
    ELSE IF block.exc # "None" THEN [exc |-> block.exc, val |-> <<>>]
    ELSE [exc |-> "None", val |-> LStrip(base_color, {"#"})]

\* save_palette_to_markdown: what the call can return or raise; val is the
\* colour in the name of the file written
save_palette_to_markdown(base_color) ==
    {PaletteWritten(base_color,
                    <<[exc |-> a], [exc |-> c], [exc |-> t], [exc |-> s], [exc |-> x]>>,
                    create_color_block(base_color)) :
        a \in Raised(generate_analogous_colors(base_color, 5)),
        c \in Raised(generate_complementary_colors(base_color)),
        t \in Raised(generate_triadic_colors(base_color)),
        s \in Raised(generate_split_complementary_colors(base_color)),
        x \in Raised(generate_tetradic_colors(base_color))}

----------------------------------------------------------------------------
(* PaletteVault over one stored history                                    *)

\* the longest stored history
MaxHistory == 2

\* the colours and the times of the stored entries
VaultColors ==
    { <<"F", "F", "0", "0", "0", "0">>,
      <<"0", "0", "F", "F", "0", "0">>,
      <<"#", "b", "3", "0", "0", "0", "0">> }

VaultTimes == 1..2

\* the histories that save_color calls leave behind, up to n entries
RECURSIVE Histories(_)
Histories(n) ==
    IF n = 0 THEN {<<>>}
    ELSE Histories(n - 1)
         \cup {save_color(c, h, t) :
                  h \in Histories(n - 1), c \in VaultColors, t \in VaultTimes}

\* a history whose entries were saved in the order of their times
InTimeOrder(h) == \A i \in 1..(Len(h) - 1) : h[i].timestamp <= h[i + 1].timestamp

\* what is typed into the search input
SearchInputs == { <<>>, <<"g", "r", "e", "e", "n">> }

\* self.list_view.index: None, written <<>>, or the position i of an item,
\* written <<i>>
Selections == {<<>>} \cup {<<i>> : i \in 0..(Len(list_view) - 1)}

\* the list view after rebuild_list, with the state as it will be
Rebuilt(favs, only_favs, reversed, q) ==
    rebuild_list(stored, favs, only_favs, reversed, q)

InitVault ==
    /\ op = "none"
    /\ ret = NoReturn
    /\ IdleCall
    /\ IdleHue
    /\ stored \in {h \in Histories(MaxHistory) : InTimeOrder(h)}
    /\ now = 0
    /\ IdleVault

\* on_mount
OnMount ==
    /\ op = "none"
    /\ op' = "on_mount"
    /\ list_view' = Rebuilt(favorites, show_only_favs, sort_reversed, search_query)
    /\ ret' = NoReturn
    /\ UNCHANGED <<callVars, hueVars, storeVars, favorites, show_only_favs,
                   search_query, sort_reversed, selected, notification, palette_files>>

\* on_input_changed of the search input
OnInputChanged ==
    \E q \in SearchInputs :
        /\ op # "none"
        /\ op' = "on_input_changed"
        /\ search_query' = q
        /\ list_view' = Rebuilt(favorites, show_only_favs, sort_reversed, q)
        /\ ret' = NoReturn
        /\ UNCHANGED <<callVars, hueVars, storeVars, favorites, show_only_favs,
                       sort_reversed, selected, notification, palette_files>>

\* the favourites after "f" on item: discard if the item is flagged, else add
Toggled_AlwaysAdd(favs, item) == favs \cup {Upper(item.color)}

Toggled(favs, item) ==
    IF item.is_fav THEN favs \ {Upper(item.color)} ELSE favs \cup {Upper(item.color)}

\* on_key "f" with the list view at index i
OnKeyF ==
    \E i \in Selections :
        /\ op # "none"
        /\ op' = "on_key_f"
        /\ selected' = i
        /\ ret' = [exc |-> is_valid_selection(i, list_view).exc, val |-> <<>>]
        /\ IF is_valid_selection(i, list_view).exc = "None"
           THEN IF is_valid_selection(i, list_view).val
                THEN /\ favorites' = Toggled(favorites, list_view[i[1] + 1])
                     /\ notification' = IF list_view[i[1] + 1].is_fav
                                        THEN "Removed from favorites"
                                        ELSE "Added to favorites"
                     /\ list_view' = Rebuilt(Toggled(favorites, list_view[i[1] + 1]),
                                             show_only_favs, sort_reversed, search_query)
                ELSE /\ notification' = "No color selected!"
                     /\ UNCHANGED <<favorites, list_view>>
           ELSE UNCHANGED <<favorites, list_view, notification>>
        /\ UNCHANGED <<callVars, hueVars, storeVars, show_only_favs, search_query,
                       sort_reversed, palette_files>>

\* on_key "h"
OnKeyH ==
    /\ op # "none"
    /\ op' = "on_key_h"
    /\ show_only_favs' = ~show_only_favs
    /\ list_view' = Rebuilt(favorites, ~show_only_favs, sort_reversed, search_query)
    /\ ret' = NoReturn
    /\ UNCHANGED <<callVars, hueVars, storeVars, favorites, search_query,
                   sort_reversed, selected, notification, palette_files>>

\* on_key "s"
OnKeyS ==
    /\ op # "none"
    /\ op' = "on_key_s"
    /\ sort_reversed' = ~sort_reversed
    /\ list_view' = Rebuilt(favorites, show_only_favs, ~sort_reversed, search_query)
    /\ ret' = NoReturn
    /\ UNCHANGED <<callVars, hueVars, storeVars, favorites, show_only_favs,
                   search_query, selected, notification, palette_files>>

\* on_key "p" with the list view at index i
OnKeyP ==
    \E i \in Selections :
        /\ op # "none"
        /\ op' = "on_key_p"
        /\ selected' = i
        /\ IF is_valid_selection(i, list_view).exc # "None"
           THEN /\ ret' = [exc |-> is_valid_selection(i, list_view).exc, val |-> <<>>]
                /\ UNCHANGED <<notification, palette_files>>
           ELSE IF ~is_valid_selection(i, list_view).val
           THEN /\ ret' = NoReturn
                /\ notification' = "No color selected!"
                /\ UNCHANGED palette_files
           ELSE \E r \in save_palette_to_markdown(<<"#">> \o list_view[i[1] + 1].color) :
                   /\ ret' = NoReturn
                   /\ IF r.exc = "None"
                      THEN /\ notification' = "Generated color palette!"
                           /\ palette_files' = palette_files \cup {r.val}
                      ELSE /\ notification' = "Failed to generate color palette."
                           /\ UNCHANGED palette_files
        /\ UNCHANGED <<callVars, hueVars, storeVars, favorites, show_only_favs,
                       search_query, sort_reversed, list_view>>

NextVault == OnMount \/ OnInputChanged \/ OnKeyF \/ OnKeyH \/ OnKeyS

SpecVault == InitVault /\ [][NextVault]_vars

\* the list in either order, and the "p" key
NextPalette == OnMount \/ OnKeyS \/ OnKeyP

SpecPalette == InitVault /\ [][NextPalette]_vars

----------------------------------------------------------------------------

(* Properties of search_colors, checked under SpecSearch                   *)

Searched == op = "search_colors"

\* the query as search_colors compares it: lowercased and trimmed
Q == Strip(Lower(query))

\* the colours of the returned list
Returned == BagToSet(ret.val)

\* a well-formed colour text: an optional leading marker and then exactly
\* six hexadecimal digits
IsColorText(s) ==
    LET h == IF s # <<>> /\ Head(s) = "#" THEN Tail(s) ELSE s
    IN  Len(h) = 6 /\ \A i \in 1..6 : IsHexDigit(h[i])

\* the keys of the name table whose name has the query
NamedByQuery == {e.hex : e \in {n \in COLOR_NAMES : Contains(Lower(n.name), Q)}}

\* the candidates whose lowercased text has the query
HasQuery == {c \in Range(colors) : Contains(Lower(c), Q)}

\* sqrt(2*dr^2 + 4*dg^2 + 3*db^2) <= n/d on channels divided by 255, for
\* two texts that parse, without the square root and the division
Within(a, b, n, d) ==
    LET x == hex_to_rgb(a).val
        y == hex_to_rgb(b).val
    IN  (2 * (x[1] - y[1]) * (x[1] - y[1]) + 4 * (x[2] - y[2]) * (x[2] - y[2])
         + 3 * (x[3] - y[3]) * (x[3] - y[3])) * d * d <= n * n * 255 * 255

\* the query read as a colour, the way strategy 3 reads it
QueryColor == <<"#">> \o Q
QueryParses == Len(Q) >= 3 /\ hex_to_rgb(QueryColor).exc = "None"

\* C1 as stated: every colour search_colors returns is one of the
\* candidates, also the colours the name-alias strategy contributes.
C1_ReturnedAreCandidates ==
    Searched => Returned \subseteq Range(colors)

\* C1 as amended: every colour search_colors returns is one of the
\* candidates or, for a non-empty query, a key of COLOR_NAMES whose name
\* contains the query; with an empty query only candidates are returned.
C1_ReturnedAreCandidatesOrNamed ==
    Searched =>
        /\ ret.exc = "None"
        /\ Q = <<>> => Returned \subseteq Range(colors)
        /\ Q # <<>> => Returned \subseteq (Range(colors) \cup NamedByQuery)

\* a search that returned a named colour that no candidate is
C1_Witness ==
    /\ Searched
    /\ Q # <<>>
    /\ colors # <<>>
    /\ \E c \in Returned : c \notin Range(colors) /\ c \in NamedByQuery

\* C2: with a query that is a colour, a malformed candidate is left out of
\* the result and every well-formed candidate within 0.5 of the query
\* colour is still in the result.
C2_MalformedCandidateFailsAlone ==
    (Searched /\ IsColorText(Q)) =>
        /\ ret.exc = "None"
        /\ \A c \in Range(colors) :
              /\ ~IsColorText(c) => c \notin Returned
              /\ (IsColorText(c) /\ Within(QueryColor, c, 1, 2)) => c \in Returned

\* C5: no query makes search_colors raise, and a query that does not parse
\* as a colour leaves exactly the substring and the name-alias results.
C5_QueryNeverRaises ==
    Searched =>
        /\ ret.exc = "None"
        /\ (Q # <<>> /\ hex_to_rgb(QueryColor).exc # "None") =>
              Returned = HasQuery \cup NamedByQuery

\* a query of three characters or more that is no colour, searched among
\* candidates, with a result
C5_Witness ==
    /\ Searched
    /\ Len(Q) >= 3
    /\ hex_to_rgb(QueryColor).exc = "ValueError"
    /\ colors # <<>>
    /\ Returned # {}
    /\ HasQuery # {}

\* C6: with an empty query search_colors returns the candidate list it was
\* given: the same elements, as often as they were given.
C6_EmptyQueryReturnsCandidates ==
    (Searched /\ Q = <<>>) => ret = [exc |-> "None", val |-> SeqToBag(colors)]

\* an empty-query search among candidates of which one is given twice
C6_Witness ==
    /\ Searched
    /\ query = <<>>
    /\ \E i, j \in 1..Len(colors) : i # j /\ colors[i] = colors[j]
    /\ \E c \in Range(colors) : ret.val[c] = 2

\* C7: for a non-empty query, every candidate that is the key of a name
\* table entry whose name contains the query is returned.
C7_NamedCandidatesReturned ==
    (Searched /\ Q # <<>>) =>
        /\ ret.exc = "None"
        /\ \A c \in Range(colors) : c \in NamedByQuery => c \in Returned

\* the search for "red" among FF0000 and 00FF00, which returns FF0000
C7_Witness ==
    /\ Searched
    /\ query = <<"r", "e", "d">>
    /\ colors = << <<"F", "F", "0", "0", "0", "0">>, <<"0", "0", "F", "F", "0", "0">> >>
    /\ <<"F", "F", "0", "0", "0", "0">> \in Returned
    /\ <<"0", "0", "F", "F", "0", "0">> \notin Returned

\* C8: for a non-empty query, every candidate whose lowercased text
\* contains the query is returned, whatever the other strategies do.
C8_SubstringCandidatesReturned ==
    (Searched /\ Q # <<>>) =>
        /\ ret.exc = "None"
        /\ \A c \in Range(colors) : Contains(Lower(c), Q) => c \in Returned

\* a substring match in upper case returned by a search whose proximity
\* strategy failed on a malformed candidate and whose name table had nothing
C8_Witness ==
    /\ Searched
    /\ QueryParses
    /\ \E c \in Range(colors) : hex_to_rgb(c).exc = "ValueError"
    /\ NamedByQuery = {}
    /\ \E c \in Returned : c # Lower(c) /\ Contains(Lower(c), Q)

\* C9: when the query has three characters or more and parses as a colour
\* and all candidates are well-formed, every candidate within 0.5 of the
\* query colour is returned.
C9_NearCandidatesReturned ==
    (Searched /\ QueryParses /\ \A c \in Range(colors) : IsColorText(c)) =>
        /\ ret.exc = "None"
        /\ \A c \in Range(colors) : Within(QueryColor, c, 1, 2) => c \in Returned

\* a candidate returned for its distance alone, beside one that is too far
C9_Witness ==
    /\ Searched
    /\ QueryParses
    /\ \A c \in Range(colors) : IsColorText(c)
    /\ \E c \in Returned : Within(QueryColor, c, 1, 2) /\ c \notin HasQuery
                           /\ c \notin NamedByQuery
    /\ \E c \in Range(colors) : ~Within(QueryColor, c, 1, 2) /\ c \notin Returned

----------------------------------------------------------------------------
(* Properties of find_similar_colors, checked under SpecSimilar            *)

FoundSimilar == op = "find_similar_colors" /\ ret.exc = "None"

WithinMax(c) == Within(query, c, max_distance[1], max_distance[2])

DistSq(c) ==
    LET x == hex_to_rgb(query).val
        y == hex_to_rgb(c).val
    IN  2 * (x[1] - y[1]) * (x[1] - y[1]) + 4 * (x[2] - y[2]) * (x[2] - y[2])
        + 3 * (x[3] - y[3]) * (x[3] - y[3])

\* C10: find_similar_colors returns exactly the candidates within
\* max_distance of the target, the boundary included and duplicates kept,
\* in the order of non-decreasing distance.
C10_SimilarFilteredAndSorted ==
    FoundSimilar =>
        /\ SeqToBag(ret.val) = SeqToBag(SelectSeq(colors, WithinMax))
        /\ \A i \in 1..(Len(ret.val) - 1) : DistSq(ret.val[i]) <= DistSq(ret.val[i + 1])

\* a call that kept a candidate exactly at max_distance, dropped one beyond
\* it and returned the kept ones in another order than they were given
C10_Witness ==
    /\ FoundSimilar
    /\ \E c \in Range(ret.val) :
           DistSq(c) * max_distance[2] * max_distance[2]
               = max_distance[1] * max_distance[1] * 255 * 255
    /\ ret.val # SelectSeq(colors, WithinMax)
    /\ Len(ret.val) < Len(colors)
    /\ max_distance[1] > 0

----------------------------------------------------------------------------
(* Properties of the parsers, checked under SpecParse                      *)

Parsed == op \in {"hex_to_rgb", "hex_to_hsv"}

\* C3: hex_to_rgb and hex_to_hsv fail for every string that, without an
\* optional leading marker, is not exactly six hexadecimal digits, and
\* never return a colour for it.
C3_ParseFailsUnlessSixHexDigits ==
    (Parsed /\ ~IsColorText(hex_color)) => ret.exc # "None"

----------------------------------------------------------------------------
(* Properties of the scheme generators, checked under SpecScheme           *)

FixedSchemes == {"generate_complementary_colors", "generate_triadic_colors",
                 "generate_split_complementary_colors", "generate_tetradic_colors"}

Generated == op \in FixedSchemes \cup {"generate_analogous_colors"}

\* canonical form: exactly six hexadecimal digits, letters in upper case
IsCanonical(s) ==
    Len(s) = 6 /\ \A i \in 1..6 : IsHexDigit(s[i]) /\ s[i] = UpperChar(s[i])

\* the marker and then exactly six hexadecimal digits, letters in lower case
IsMarkedLowerCase(s) ==
    /\ Len(s) = 7
    /\ s[1] = "#"
    /\ \A i \in 2..7 : IsHexDigit(s[i]) /\ s[i] = LowerChar(s[i])

ExpectedRotations(o) ==
    CASE o = "generate_complementary_colors" -> << <<1, 2>> >>
      [] o = "generate_triadic_colors" -> << <<333, 1000>>, <<666, 1000>> >>
      [] o = "generate_split_complementary_colors" -> << <<417, 1000>>, <<583, 1000>> >>
      [] o = "generate_tetradic_colors" -> << <<1, 4>>, <<1, 2>>, <<3, 4>> >>

\* a hue in [0, 1)
InUnitInterval(h) == 0 <= h.n /\ h.n < h.d

\* result is base followed by the colours of hsv with the hue rotated by
\* rots[i], reduced mod 1.0, and saturation and value as they are
RotatedFrom(base, hsv, rots, result) ==
    /\ Len(result) = Len(rots) + 1
    /\ result[1] = base
    /\ \A i \in 1..Len(rots) :
          /\ InUnitInterval(Rotate(hsv[1], rots[i][1], rots[i][2]))
          /\ result[i + 1] \in hsv_to_hex(Rotate(hsv[1], rots[i][1], rots[i][2]),
                                          hsv[2], hsv[3])

\* C11: for a valid base every fixed-size scheme returns the base first and
\* then the colours at its hue rotations (0.5; 0.333, 0.666; 0.417, 0.583;
\* 0.25, 0.5, 0.75), each hue reduced into [0, 1), saturation and value kept.
C11_FixedSchemesRotateHue ==
    (op \in FixedSchemes /\ IsColorText(hex_color)) =>
        /\ ret.exc = "None"
        /\ RotatedFrom(hex_color, hex_to_hsv(hex_color).val, ExpectedRotations(op), ret.val)

\* the triadic scheme of orange, whose rotated hues pass 1.0 and come out
\* in another sector than the base
C11_Witness ==
    /\ op = "generate_triadic_colors"
    /\ hex_color = <<"F", "F", "A", "5", "0", "0">>
    /\ ret.exc = "None"
    /\ Len(ret.val) = 3
    /\ ret.val[1] = hex_color
    /\ ret.val[2] # ret.val[3]
    /\ ret.val[2] # <<"#", "f", "f", "a", "5", "0", "0">>

Analogous == op = "generate_analogous_colors"

\* C12: for a valid base and every count >= 0, odd or even,
\* generate_analogous_colors returns exactly count colours.
C12_AnalogousReturnsCount ==
    (Analogous /\ IsColorText(hex_color)) =>
        /\ ret.exc = "None"
        /\ Len(ret.val) = num_colors

\* an even count and the default count, each returned in full
C12_Witness ==
    /\ Analogous
    /\ IsColorText(hex_color)
    /\ num_colors = 4
    /\ Len(ret.val) = 4

\* the offsets -floor(count/2) .. +floor(count/2), in increasing order
SymmetricOffsets(n) == [i \in 1..(2 * (n \div 2) + 1) |-> (i - 1) - (n \div 2)]

\* the offsets i - floor(count/2) for i = 0 .. count-1
RangeOffsets(n) == [i \in 1..n |-> (i - 1) - (n \div 2)]

\* result is, colour by colour, hsv with the hue moved by offsets[i] * 0.083
\* and reduced mod 1.0
OffsetFrom(hsv, offsets, result) ==
    /\ Len(result) = Len(offsets)
    /\ \A i \in 1..Len(offsets) :
          result[i] \in hsv_to_hex(Rotate(hsv[1], offsets[i] * 83, 1000), hsv[2], hsv[3])

\* C13 as stated: for every count (of at least one colour) the colours of
\* generate_analogous_colors are those of the offsets -floor(count/2) ..
\* +floor(count/2), so that the base hue is at the centre with as many
\* colours before as after it.
C13_OffsetsSymmetric ==
    (Analogous /\ IsColorText(hex_color) /\ num_colors > 0) =>
        /\ ret.exc = "None"
        /\ OffsetFrom(hex_to_hsv(hex_color).val, SymmetricOffsets(num_colors), ret.val)

\* C13 as amended: the colours are those of the offsets i - floor(count/2)
\* for i = 0 .. count-1, in increasing order; for an odd count these run
\* from -floor(count/2) to +floor(count/2) with the base hue at the centre,
\* for an even count they stop at floor(count/2) - 1 and the base hue has one
\* colour more before it than after it.
C13_OffsetsFromRange ==
    (Analogous /\ IsColorText(hex_color)) =>
        /\ ret.exc = "None"
        /\ OffsetFrom(hex_to_hsv(hex_color).val, RangeOffsets(num_colors), ret.val)
        /\ num_colors % 2 = 1 => RangeOffsets(num_colors) = SymmetricOffsets(num_colors)
        /\ (num_colors % 2 = 0 /\ num_colors > 0) =>
              /\ RangeOffsets(num_colors)[(num_colors \div 2) + 1] = 0
              /\ RangeOffsets(num_colors)[num_colors] = (num_colors \div 2) - 1

\* an even count whose last colour is the one of offset floor(count/2) - 1
\* and not the one of offset floor(count/2)
C13_Witness ==
    /\ Analogous
    /\ hex_color = <<"F", "F", "0", "0", "0", "0">>
    /\ num_colors = 4
    /\ ret.exc = "None"
    /\ Len(ret.val) = 4
    /\ ret.val[4] \in hsv_to_hex(Rotate(hex_to_hsv(hex_color).val[1], 83, 1000),
                                 Lit(1, 1), Lit(1, 1))
    /\ ret.val[4] \notin hsv_to_hex(Rotate(hex_to_hsv(hex_color).val[1], 166, 1000),
                                    Lit(1, 1), Lit(1, 1))

----------------------------------------------------------------------------
(* Properties of hsv_to_hex, checked under SpecHue                         *)

Converted == op = "hsv_to_hex"

\* C14: hsv_to_hex treats the hue as circular: for a hue h, negative or 1
\* and more included, and whole turns k, hsv_to_hex(h + k, s, v) is what
\* hsv_to_hex(h, s, v) returns.
C14_HueIsCircular ==
    Converted => ret.val \in hsv_to_hex(hue, saturation, value)

\* the integers of 0..255 nearest to x, both neighbours for a tie
Nearest(x) == {n \in 0..255 : 2 * Abs(x.n - n * x.d) <= x.d}

\* the strings of a triple whose channels c are converted to the integer
\* nearest to c * 255
NearestHex(rgb) ==
    {<<"#">> \o Format02x(x) \o Format02x(y) \o Format02x(z) :
        x \in Nearest(FMul(rgb[1], Lit(255, 1))),
        y \in Nearest(FMul(rgb[2], Lit(255, 1))),
        z \in Nearest(FMul(rgb[3], Lit(255, 1)))}

\* C15: hsv_to_hex converts each channel c in [0, 1] to the integer nearest
\* to c * 255, which lies in 0..255 (for a hue in [0, 1)).
C15_ChannelsRoundedToNearest ==
    (Converted /\ turns = 0) =>
        ret.val \in UNION {NearestHex(rgb) : rgb \in hsv_to_rgb(hue, saturation, value)}

----------------------------------------------------------------------------
(* Properties of the history file, checked under SpecStore                 *)

\* no two entries with the same hex, compared without case
NoDuplicateHex ==
    \A i, j \in 1..Len(stored) : Upper(stored[i].hex) = Upper(stored[j].hex) => i = j

\* trimmed, leading markers stripped, upper-cased
Normalized(raw) == Upper(LStrip(Strip(raw), {"#"}))

IsStored(hex) == \E i \in 1..Len(stored) : Upper(stored[i].hex) = hex

\* a save_color step: no change for an input that is empty or stored when
\* normalised, else one entry appended after the entries as they were
SaveStep ==
    op' = "save_color" =>
        IF Normalized(hex_color') = <<>> \/ IsStored(Normalized(hex_color'))
        THEN stored' = stored
        ELSE /\ Len(stored') = Len(stored) + 1
             /\ SubSeq(stored', 1, Len(stored)) = stored
             /\ stored'[Len(stored')].hex = Normalized(hex_color')

\* C18: from an empty history, after any save_color and clear_colors calls
\* no two entries have the same hex without regard to case; a save_color of
\* an input that is empty or already stored when normalised changes nothing,
\* any other appends exactly one entry and keeps the others in their order.
C18_HistoryHasNoDuplicates == []NoDuplicateHex /\ [][SaveStep]_vars

\* a colour given in another spelling than the one stored, refused while
\* the history holds two entries
C18_Witness ==
    /\ op = "save_color"
    /\ hex_color = <<" ", "#", "f", "f", "0", "0", "0", "0", " ">>
    /\ Len(stored) = 2
    /\ stored[1].hex = <<"F", "F", "0", "0", "0", "0">>
    /\ stored[2].hex = <<"0", "0", "F", "F", "0", "0">>
    /\ now > stored[2].timestamp

----------------------------------------------------------------------------

(* Properties of the "p" key, checked under SpecPalette                    *)

\* on_key "p" has run with an item of the list selected
PaletteKeyed == op = "on_key_p" /\ selected # <<>> /\ selected[1] < Len(list_view)

\* C16: pressing "p" on a selected colour, whose text is a well-formed
\* colour, writes the palette file of that colour and ends in the
\* notification "Generated color palette!", not in the failure notification
C16_PaletteGenerated ==
    PaletteKeyed =>
        /\ notification = "Generated color palette!"
        /\ list_view[selected[1] + 1].color \in palette_files

----------------------------------------------------------------------------

(* Properties of the main list, checked under SpecVault                    *)

\* the list view holds what the last rebuild_list put there
AfterRebuild == op # "none"

\* the colour of the item at position i is a favourite
FavoriteAt(i) == list_view[i].color \in favorites

\* C17: after rebuild_list every favourite colour of the displayed list
\* stands before every colour that is no favourite
C17_FavoritesComeFirst ==
    AfterRebuild =>
        \A i, j \in 1..Len(list_view) : (FavoriteAt(i) /\ ~FavoriteAt(j)) => i < j

\* the colours of the stored history, as rebuild_list hands them to
\* search_colors
StoredColors == [k \in 1..Len(stored) |-> EntryHex(stored[k])]

\* the item at position i of the list view is an entry of the history
FromHistory(i) ==
    \E k \in 1..Len(stored) :
        /\ list_view[i].color = EntryHex(stored[k])
        /\ list_view[i].timestamp = stored[k].timestamp

\* C19: every item shown by rebuild_list is an entry of the stored
\* history, whatever search_colors returns, and every item shown while
\* show_only_favs is set is a favourite
C19_DisplayedFromHistory ==
    AfterRebuild =>
        /\ \A i \in 1..Len(list_view) : FromHistory(i)
        /\ show_only_favs => \A i \in 1..Len(list_view) : FavoriteAt(i)

\* a search for "green" finds dark green in the name table, which is no
\* entry of the history, while only favourites are shown and a stored
\* colour is none
C19_Witness ==
    /\ AfterRebuild
    /\ search_query = <<"g", "r", "e", "e", "n">>
    /\ <<"0", "0", "8", "0", "0", "0">>
           \in BagToSet(search_colors(search_query, StoredColors).val)
    /\ show_only_favs
    /\ Len(stored) = 2
    /\ Len(list_view) = 1
    /\ favorites = {list_view[1].color}

\* the is_fav flag of every item says whether its colour is a favourite
FlagsMatchFavorites ==
    AfterRebuild => \A i \in 1..Len(list_view) : list_view[i].is_fav = FavoriteAt(i)

\* favs with the membership of c flipped
Flipped(favs, c) == IF c \in favs THEN favs \ {c} ELSE favs \cup {c}

\* an on_key "f" step flips the selected colour, upper-cased, in the
\* favourites, and changes nothing there without a valid selection; no
\* other step changes the favourites
FlipStep ==
    IF op' = "on_key_f" /\ selected' # <<>> /\ selected'[1] < Len(list_view)
    THEN favorites' = Flipped(favorites, Upper(list_view[selected'[1] + 1].color))
    ELSE favorites' = favorites

\* C20: "f" on a validly selected colour flips the membership of exactly
\* that colour's upper-case hex in the persisted favourites and leaves the
\* other members alone; without a valid selection the favourites are
\* unchanged; this after any "f", "h", "s" and search input, since every
\* item's is_fav flag equals its membership after every rebuild.
C20_FavoriteFlipped == []FlagsMatchFavorites /\ [][FlipStep]_vars

\* "f" has taken the second of two displayed favourites out again, under a
\* reversed sort
C20_Witness ==
    /\ op = "on_key_f"
    /\ selected = <<1>>
    /\ notification = "Removed from favorites"
    /\ sort_reversed
    /\ Len(list_view) = 2
    /\ list_view[1].is_fav
    /\ ~list_view[2].is_fav
    /\ Cardinality(favorites) = 1

=============================================================================
